---- MODULE Spec2Model ----
(***************************************************************************)
(* A model of the CPU of src/main.rs: a CHIP-8 style fetch/decode/execute  *)
(* engine with 16 eight-bit registers, 4096 bytes of memory and a call     *)
(* stack of 16 return addresses.                                           *)
(***************************************************************************)
EXTENDS Integers, Sequences, FiniteSets, TLC

VARIABLES registers, position_in_memory, memory, stack, stack_pointer,
          opcode, status

vars == <<registers, position_in_memory, memory, stack, stack_pointer,
          opcode, status>>

\* ------------------------------------------------------------------------
\* Program constants
\* ------------------------------------------------------------------------
\* memory: [u8; 0x1000]
MemSize == 4096
\* stack: [u16; 16]
StackLen == 16
\* registers: [u8; 16]
NumRegs == 16
\* u8 and u16 value ranges
U8 == 256
U16 == 65536

\* ------------------------------------------------------------------------
\* Bounds of the explored inputs
\* ------------------------------------------------------------------------
\* register values near 0 and near 255 that the arithmetic programs load
ValSpread == 1
\* deepest chain of nested subroutines in the nesting programs
MaxNest == 17
\* longest program drawn from the opcode pool
MaxPoolLen == 2

\* ------------------------------------------------------------------------
\* Opcode encodings (the patterns of the match in run)
\* ------------------------------------------------------------------------
HALT == 0
RET == 14 * 16 + 14
JMP(nnn) == 1 * 4096 + nnn
CALL(nnn) == 2 * 4096 + nnn
SE(x, kk) == 3 * 4096 + x * 256 + kk
SNE(x, kk) == 4 * 4096 + x * 256 + kk
LD(x, kk) == 6 * 4096 + x * 256 + kk
ALU(x, y, d) == 8 * 4096 + x * 256 + y * 16 + d
OR_XY(x, y) == ALU(x, y, 1)
AND_XY(x, y) == ALU(x, y, 2)
XOR_XY(x, y) == ALU(x, y, 3)
ADD_XY(x, y) == ALU(x, y, 4)
SUB_XY(x, y) == ALU(x, y, 5)
MUL_XY(x, y) == ALU(x, y, 12)
DIV_XY(x, y) == ALU(x, y, 13)
LDK == 15 * 4096 + 10

\* the fields run() takes out of an opcode
Field_c(op) == (op \div 4096) % 16
Field_x(op) == (op \div 256) % 16
Field_y(op) == (op \div 16) % 16
Field_d(op) == op % 16
Field_nnn(op) == op % 4096
Field_kk(op) == op % 256

\* a program of opcodes as the byte sequence load_program takes (big-endian)
RECURSIVE Bytes(_)
Bytes(ops) ==
  IF ops = <<>> THEN <<>>
  ELSE <<Head(ops) \div 256, Head(ops) % 256>> \o Bytes(Tail(ops))

\* ------------------------------------------------------------------------
\* u8 arithmetic
\* ------------------------------------------------------------------------
overflowing_add(a, b) == <<(a + b) % U8, a + b >= U8>>
overflowing_sub(a, b) == <<(a - b) % U8, a < b>>
overflowing_mul(a, b) == <<(a * b) % U8, a * b >= U8>>

RECURSIVE BitAnd(_, _, _)
BitAnd(a, b, n) ==
  IF n = 0 THEN 0
  ELSE (IF a % 2 = 1 /\ b % 2 = 1 THEN 1 ELSE 0)
       + 2 * BitAnd(a \div 2, b \div 2, n - 1)

RECURSIVE BitOr(_, _, _)
BitOr(a, b, n) ==
  IF n = 0 THEN 0
  ELSE (IF a % 2 = 1 \/ b % 2 = 1 THEN 1 ELSE 0)
       + 2 * BitOr(a \div 2, b \div 2, n - 1)

RECURSIVE BitXor(_, _, _)
BitXor(a, b, n) ==
  IF n = 0 THEN 0
  ELSE (IF a % 2 # b % 2 THEN 1 ELSE 0)
       + 2 * BitXor(a \div 2, b \div 2, n - 1)

\* ------------------------------------------------------------------------
\* Construction and loading
\* ------------------------------------------------------------------------
\* status is the position of the caller: "new" after CPU::new, "fetch" at the
\* top of the loop of run, "exec" at the match of run, "key" inside the loop
\* of read_key, "halted" after run returned, and one value per panic.
Panics == {"panic_load_bounds", "panic_fetch_bounds", "panic_todo",
           "panic_div_zero", "panic_stack_overflow", "panic_stack_index",
           "panic_stack_underflow", "panic_key_source"}

\* memory: [u8; 0x1000], zeroed by new and written by load_program alone,
\* is held as the image that was copied in and the address it starts at;
\* MemAt is the byte at address a, 0 outside the image
MemAt(m, a) ==
  IF a >= m.base /\ a < m.base + Len(m.image)
  THEN m.image[a - m.base + 1]
  ELSE 0

new ==
  /\ registers = [i \in 0..(NumRegs - 1) |-> 0]
  /\ memory = [base |-> 0, image |-> <<>>]
  /\ position_in_memory = 0
  /\ stack = [i \in 0..(StackLen - 1) |-> 0]
  /\ stack_pointer = 0
  /\ opcode = 0
  /\ status = "new"

\* load_program copying as much of the program as fits
load_program_truncating(program, start_address) ==
  /\ status = "new"
  /\ memory' = [base |-> start_address,
                image |-> IF start_address + Len(program) > MemSize
                          THEN SubSeq(program, 1, MemSize - start_address)
                          ELSE program]
  /\ status' = "fetch"
  /\ UNCHANGED <<registers, position_in_memory, stack, stack_pointer, opcode>>

\* self.memory[start..start + len].copy_from_slice(program): the slice index
\* panics before any byte is copied when the range ends past the memory.
\* It is called once, on the memory new() zeroed.
load_program(program, start_address) ==
  /\ status = "new"
  /\ IF start_address + Len(program) > MemSize
     THEN /\ status' = "panic_load_bounds"
          /\ UNCHANGED memory
     ELSE /\ memory' = [base |-> start_address, image |-> program]
          /\ status' = "fetch"
  /\ UNCHANGED <<registers, position_in_memory, stack, stack_pointer, opcode>>

\* ------------------------------------------------------------------------
\* Fetch
\* ------------------------------------------------------------------------
read_opcode ==
  LET p == position_in_memory
      op_byte1 == MemAt(memory, p)
      op_byte2 == MemAt(memory, p + 1)
  IN (op_byte1 * 256 + op_byte2) % U16

\* let opcode = self.read_opcode(); self.position_in_memory += 2;
\* memory[p] and memory[p + 1] are bounds-checked array reads
fetch ==
  /\ status = "fetch"
  /\ IF position_in_memory + 1 >= MemSize
     THEN /\ status' = "panic_fetch_bounds"
          /\ UNCHANGED <<opcode, position_in_memory>>
     ELSE /\ opcode' = read_opcode
          /\ position_in_memory' = position_in_memory + 2
          /\ status' = "exec"
  /\ UNCHANGED <<registers, memory, stack, stack_pointer>>

\* ------------------------------------------------------------------------
\* Instruction handlers
\* ------------------------------------------------------------------------
Frame_regs == UNCHANGED <<position_in_memory, memory, stack, stack_pointer, opcode>>
Frame_pc == UNCHANGED <<registers, memory, stack, stack_pointer, opcode>>
Frame_all == UNCHANGED <<registers, position_in_memory, memory, stack,
                         stack_pointer, opcode>>

halt ==
  /\ status' = "halted"
  /\ Frame_all

\* add_xy with the flag the wrong way round (as sub_xy has it)
add_xy_flag_inverted(x, y) ==
  LET arg1 == registers[x]
      arg2 == registers[y]
      val == overflowing_add(arg1, arg2)[1]
      overflow == overflowing_add(arg1, arg2)[2]
      written == [registers EXCEPT ![x] = val]
  IN /\ registers' = [written EXCEPT ![15] = IF overflow THEN 0 ELSE 1]
     /\ status' = "fetch"
     /\ Frame_regs

add_xy(x, y) ==
  LET arg1 == registers[x]
      arg2 == registers[y]
      val == overflowing_add(arg1, arg2)[1]
      overflow == overflowing_add(arg1, arg2)[2]
      written == [registers EXCEPT ![x] = val]
  IN /\ registers' = [written EXCEPT ![15] = IF overflow THEN 1 ELSE 0]
     /\ status' = "fetch"
     /\ Frame_regs

\* sub_xy with the flag of add_xy: 1 on borrow
sub_xy_flag_is_borrow(x, y) ==
  LET arg1 == registers[x]
      arg2 == registers[y]
      val == overflowing_sub(arg1, arg2)[1]
      borrow == overflowing_sub(arg1, arg2)[2]
      written == [registers EXCEPT ![x] = val]
  IN /\ registers' = [written EXCEPT ![15] = IF borrow THEN 1 ELSE 0]
     /\ status' = "fetch"
     /\ Frame_regs

sub_xy(x, y) ==
  LET arg1 == registers[x]
      arg2 == registers[y]
      val == overflowing_sub(arg1, arg2)[1]
      borrow == overflowing_sub(arg1, arg2)[2]
      written == [registers EXCEPT ![x] = val]
  IN /\ registers' = [written EXCEPT ![15] = IF borrow THEN 0 ELSE 1]
     /\ status' = "fetch"
     /\ Frame_regs

\* mul_xy wrapping without reporting the overflow
mul_xy_flag_dropped(x, y) ==
  LET arg1 == registers[x]
      arg2 == registers[y]
      val == overflowing_mul(arg1, arg2)[1]
      written == [registers EXCEPT ![x] = val]
  IN /\ registers' = [written EXCEPT ![15] = 0]
     /\ status' = "fetch"
     /\ Frame_regs

mul_xy(x, y) ==
  LET arg1 == registers[x]
      arg2 == registers[y]
      val == overflowing_mul(arg1, arg2)[1]
      overflow == overflowing_mul(arg1, arg2)[2]
      written == [registers EXCEPT ![x] = val]
  IN /\ registers' = [written EXCEPT ![15] = IF overflow THEN 1 ELSE 0]
     /\ status' = "fetch"
     /\ Frame_regs

\* div_xy taking the remainder after the quotient is stored
div_xy_remainder_late(x, y) ==
  LET arg1 == registers[x]
      arg2 == registers[y]
  IN IF arg2 = 0
     THEN /\ status' = "panic_div_zero"
          /\ Frame_all
     ELSE LET written == [registers EXCEPT ![x] = arg1 \div arg2]
          IN /\ registers' = [written EXCEPT ![15] = written[x] % written[y]]
             /\ status' = "fetch"
             /\ Frame_regs

\* div_xy clearing the flag register before it looks at the divisor
div_xy_check_late(x, y) ==
  LET arg1 == registers[x]
      arg2 == registers[y]
  IN IF arg2 = 0
     THEN /\ status' = "panic_div_zero"
          /\ registers' = [registers EXCEPT ![15] = 0]
          /\ Frame_regs
     ELSE LET written == [registers EXCEPT ![15] = arg1 % arg2]
          IN /\ registers' = [written EXCEPT ![x] = arg1 \div arg2]
             /\ status' = "fetch"
             /\ Frame_regs

div_xy(x, y) ==
  LET arg1 == registers[x]
      arg2 == registers[y]
  IN IF arg2 = 0
     THEN /\ status' = "panic_div_zero"
          /\ Frame_all
     ELSE LET written == [registers EXCEPT ![15] = arg1 % arg2]
          IN /\ registers' = [written EXCEPT ![x] = arg1 \div arg2]
             /\ status' = "fetch"
             /\ Frame_regs

\* and_xy with the operator of or_xy
and_xy_as_or(x, y) ==
  /\ registers' = [registers EXCEPT ![x] = BitOr(registers[x], registers[y], 8)]
  /\ status' = "fetch"
  /\ Frame_regs

and_xy(x, y) ==
  /\ registers' = [registers EXCEPT ![x] = BitAnd(registers[x], registers[y], 8)]
  /\ status' = "fetch"
  /\ Frame_regs

or_xy(x, y) ==
  /\ registers' = [registers EXCEPT ![x] = BitOr(registers[x], registers[y], 8)]
  /\ status' = "fetch"
  /\ Frame_regs

xor_xy(x, y) ==
  /\ registers' = [registers EXCEPT ![x] = BitXor(registers[x], registers[y], 8)]
  /\ status' = "fetch"
  /\ Frame_regs

\* jmp aligning its target to an instruction boundary
jmp_aligned(addr) ==
  /\ position_in_memory' = addr - (addr % 2)
  /\ status' = "fetch"
  /\ Frame_pc

jmp(addr) ==
  /\ position_in_memory' = addr
  /\ status' = "fetch"
  /\ Frame_pc

\* call pushing the address of the CALL itself, not of the next instruction
call_pushes_call_address(addr) ==
  LET sp == stack_pointer
  IN IF sp > StackLen
     THEN /\ status' = "panic_stack_overflow"
          /\ Frame_all
     ELSE IF sp >= StackLen
     THEN /\ status' = "panic_stack_index"
          /\ Frame_all
     ELSE /\ stack' = [stack EXCEPT ![sp] = (position_in_memory - 2) % U16]
          /\ stack_pointer' = stack_pointer + 1
          /\ position_in_memory' = addr
          /\ status' = "fetch"
          /\ UNCHANGED <<registers, memory, opcode>>

\* call with no bounds check on the write of stack[sp]: the guard alone
call_unchecked_index(addr) ==
  LET sp == stack_pointer
  IN IF sp > StackLen
     THEN /\ status' = "panic_stack_overflow"
          /\ Frame_all
     ELSE /\ stack' = [i \in 0..(StackLen - 1) |->
                         IF i = sp THEN position_in_memory % U16 ELSE stack[i]]
          /\ stack_pointer' = stack_pointer + 1
          /\ position_in_memory' = addr
          /\ status' = "fetch"
          /\ UNCHANGED <<registers, memory, opcode>>

\* sp > stack.len() is the guard; stack[sp] is a bounds-checked array write
call(addr) ==
  LET sp == stack_pointer
  IN IF sp > StackLen
     THEN /\ status' = "panic_stack_overflow"
          /\ Frame_all
     ELSE IF sp >= StackLen
     THEN /\ status' = "panic_stack_index"
          /\ Frame_all
     ELSE /\ stack' = [stack EXCEPT ![sp] = position_in_memory % U16]
          /\ stack_pointer' = stack_pointer + 1
          /\ position_in_memory' = addr
          /\ status' = "fetch"
          /\ UNCHANGED <<registers, memory, opcode>>

\* ret with no guard: on an empty stack it returns to the stale slot 0
ret_unguarded ==
  /\ stack_pointer' = IF stack_pointer = 0 THEN 0 ELSE stack_pointer - 1
  /\ position_in_memory' = stack[IF stack_pointer = 0 THEN 0 ELSE stack_pointer - 1]
  /\ status' = "fetch"
  /\ UNCHANGED <<registers, memory, stack, opcode>>

ret ==
  IF stack_pointer = 0
  THEN /\ status' = "panic_stack_underflow"
       /\ Frame_all
  ELSE /\ stack_pointer' = stack_pointer - 1
       /\ position_in_memory' = stack[stack_pointer - 1]
       /\ status' = "fetch"
       /\ UNCHANGED <<registers, memory, stack, opcode>>

ld(x, kk) ==
  /\ registers' = [registers EXCEPT ![x] = kk]
  /\ status' = "fetch"
  /\ Frame_regs

\* se skipping on a difference, as sne does
se_as_sne(x, kk) ==
  /\ position_in_memory' = IF registers[x] # kk
                           THEN position_in_memory + 2
                           ELSE position_in_memory
  /\ status' = "fetch"
  /\ Frame_pc

\* se skipping one byte instead of one instruction
se_skips_one_byte(x, kk) ==
  /\ position_in_memory' = IF registers[x] = kk
                           THEN position_in_memory + 1
                           ELSE position_in_memory
  /\ status' = "fetch"
  /\ Frame_pc

se(x, kk) ==
  /\ position_in_memory' = IF registers[x] = kk
                           THEN position_in_memory + 2
                           ELSE position_in_memory
  /\ status' = "fetch"
  /\ Frame_pc

sne(x, kk) ==
  /\ position_in_memory' = IF registers[x] # kk
                           THEN position_in_memory + 2
                           ELSE position_in_memory
  /\ status' = "fetch"
  /\ Frame_pc

\* todo!("opcode {:04x}", opcode)
todo ==
  /\ status' = "panic_todo"
  /\ Frame_all

\* ------------------------------------------------------------------------
\* Key source
\* ------------------------------------------------------------------------
\* what event::read() can give: a key event with a code, another kind of
\* event, or an error (which unwrap turns into a panic)
CharCodes == {10, 65, 255, 256 + 65, 8364}
KeyEvents == {<<"Char", c>> : c \in CharCodes}
             \cup {<<"Esc", 0>>, <<"OtherKey", 0>>, <<"NotKey", 0>>, <<"Err", 0>>}

\* read_key storing the key in memory[0] instead of registers[0]
read_key_into_memory(ev) ==
  /\ status = "key"
  /\ CASE ev[1] = "Char" ->
            /\ memory' = IF memory.base = 0 /\ Len(memory.image) > 0
                         THEN [memory EXCEPT !.image[1] = ev[2] % U8]
                         ELSE [base |-> 0, image |-> <<ev[2] % U8>>]
            /\ status' = "fetch"
       [] ev[1] = "Esc" ->
            /\ status' = "fetch"
            /\ UNCHANGED memory
       [] ev[1] = "Err" ->
            /\ status' = "panic_key_source"
            /\ UNCHANGED memory
       [] OTHER ->
            /\ UNCHANGED <<memory, status>>
  /\ UNCHANGED <<registers, position_in_memory, stack, stack_pointer, opcode>>

\* read_key storing the code of the Escape key (27) in registers[0]
read_key_esc_stored(ev) ==
  /\ status = "key"
  /\ CASE ev[1] = "Char" ->
            /\ registers' = [registers EXCEPT ![0] = ev[2] % U8]
            /\ status' = "fetch"
       [] ev[1] = "Esc" ->
            /\ registers' = [registers EXCEPT ![0] = 27]
            /\ status' = "fetch"
       [] ev[1] = "Err" ->
            /\ status' = "panic_key_source"
            /\ UNCHANGED registers
       [] OTHER ->
            /\ UNCHANGED <<registers, status>>
  /\ Frame_regs

\* one turn of the loop of read_key; c as u8 keeps the low 8 bits
read_key(ev) ==
  /\ status = "key"
  /\ CASE ev[1] = "Char" ->
            /\ registers' = [registers EXCEPT ![0] = ev[2] % U8]
            /\ status' = "fetch"
       [] ev[1] = "Esc" ->
            /\ status' = "fetch"
            /\ UNCHANGED registers
       [] ev[1] = "Err" ->
            /\ status' = "panic_key_source"
            /\ UNCHANGED registers
       [] OTHER ->
            /\ UNCHANGED <<registers, status>>
  /\ Frame_regs

\* ------------------------------------------------------------------------
\* Dispatch: the arms of match (c, x, y, d) in run
\* ------------------------------------------------------------------------
IsAlu(op, d) == Field_c(op) = 8 /\ Field_d(op) = d

\* the match with an arm missing its handler: 0x7xkk taken as known
Known_with_7xkk(op) ==
  \/ op = HALT
  \/ op = RET
  \/ Field_c(op) \in {1, 2, 3, 4, 6, 7}
  \/ Field_c(op) = 8 /\ Field_d(op) \in {1, 2, 3, 4, 5, 12, 13}
  \/ op = LDK

Known(op) ==
  \/ op = HALT
  \/ op = RET
  \/ Field_c(op) \in {1, 2, 3, 4, 6}
  \/ Field_c(op) = 8 /\ Field_d(op) \in {1, 2, 3, 4, 5, 12, 13}
  \/ op = LDK

run_halt == status = "exec" /\ opcode = HALT /\ halt
run_ret == status = "exec" /\ opcode = RET /\ ret
run_jmp == status = "exec" /\ Field_c(opcode) = 1 /\ jmp(Field_nnn(opcode))
run_call == status = "exec" /\ Field_c(opcode) = 2 /\ call(Field_nnn(opcode))
run_se ==
  status = "exec" /\ Field_c(opcode) = 3 /\ se(Field_x(opcode), Field_kk(opcode))
run_sne ==
  status = "exec" /\ Field_c(opcode) = 4 /\ sne(Field_x(opcode), Field_kk(opcode))
run_ld ==
  status = "exec" /\ Field_c(opcode) = 6 /\ ld(Field_x(opcode), Field_kk(opcode))
run_add_xy ==
  status = "exec" /\ IsAlu(opcode, 4) /\ add_xy(Field_x(opcode), Field_y(opcode))
run_sub_xy ==
  status = "exec" /\ IsAlu(opcode, 5) /\ sub_xy(Field_x(opcode), Field_y(opcode))
run_and_xy ==
  status = "exec" /\ IsAlu(opcode, 2) /\ and_xy(Field_x(opcode), Field_y(opcode))
run_or_xy ==
  status = "exec" /\ IsAlu(opcode, 1) /\ or_xy(Field_x(opcode), Field_y(opcode))
run_xor_xy ==
  status = "exec" /\ IsAlu(opcode, 3) /\ xor_xy(Field_x(opcode), Field_y(opcode))
run_mul_xy ==
  status = "exec" /\ IsAlu(opcode, 12) /\ mul_xy(Field_x(opcode), Field_y(opcode))
run_div_xy ==
  status = "exec" /\ IsAlu(opcode, 13) /\ div_xy(Field_x(opcode), Field_y(opcode))
run_read_key ==
  /\ status = "exec"
  /\ opcode = LDK
  /\ status' = "key"
  /\ Frame_all
run_todo == status = "exec" /\ ~Known(opcode) /\ todo

\* ------------------------------------------------------------------------
\* The programs and load addresses explored
\* ------------------------------------------------------------------------
Vals == {v \in 0..(U8 - 1) : v <= ValSpread \/ v >= U8 - 1 - ValSpread
                              \/ v \in {5, 10, 128}}
ArithRegs == {0, 1, 15}
AluOps == {1, 2, 3, 4, 5, 12, 13}

ArithPrograms ==
  {<<LD(x, a), LD(y, b), ALU(x, y, d)>> :
     x \in ArithRegs, y \in ArithRegs, a \in Vals, b \in Vals, d \in AluOps}

SkipPrograms ==
  {<<LD(x, a), SE(x, kk)>> : x \in ArithRegs, a \in Vals, kk \in Vals}
  \cup {<<LD(x, a), SNE(x, kk)>> : x \in ArithRegs, a \in Vals, kk \in Vals}

\* every pair of registers, with one pair of values
AllRegs == 0..(NumRegs - 1)
RegisterSweepPrograms ==
  {<<LD(x, 250), LD(y, 7), ALU(x, y, d)>> :
     x \in AllRegs, y \in AllRegs, d \in AluOps}
  \cup {<<LD(x, 7), SE(x, kk)>> : x \in AllRegs, kk \in {7, 250}}
  \cup {<<LD(x, 7), SNE(x, kk)>> : x \in AllRegs, kk \in {7, 250}}

\* opcodes no arm of the match takes
UnknownOpcodes ==
  {1, 224, 5 * 4096, 7 * 4096 + 1, ALU(0, 0, 0), ALU(1, 2, 6), 15 * 4096 + 266}
UnknownPrograms == {<<op>> : op \in UnknownOpcodes}

\* n nested subroutines: the caller at 0, subroutine k at address 4k, each
\* calling the next and returning; the innermost only returns
RECURSIVE NestBody(_, _)
NestBody(k, n) ==
  IF k >= n THEN <<RET>>
  ELSE <<CALL(4 * (k + 1)), RET>> \o NestBody(k + 1, n)

NestProgram(n) == <<CALL(4), HALT>> \o NestBody(1, n)
NestPrograms == {NestProgram(n) : n \in 1..MaxNest}

\* LD V0,5; LD V1,10; SUB V0,V1; ADD V0,V1; AND V0,V1; HALT
ScenarioArith ==
  <<LD(0, 5), LD(1, 10), SUB_XY(0, 1), ADD_XY(0, 1), AND_XY(0, 1), HALT>>
\* LD V0,5; LD V1,0; DIV V0,V1; HALT
ScenarioDivZero == <<LD(0, 5), LD(1, 0), DIV_XY(0, 1), HALT>>
\* the program of main
ScenarioMain ==
  <<LD(0, 5), LD(1, 10), MUL_XY(0, 1), DIV_XY(0, 1), LDK, HALT>>
Scenarios == {ScenarioArith, ScenarioDivZero, ScenarioMain}

OpcodePool ==
  {RET, JMP(0), JMP(4095), CALL(0), CALL(2), CALL(4), LD(0, 1),
   SE(0, 0), SNE(0, 0), LDK, 224}

RECURSIVE SeqsUpTo(_, _)
SeqsUpTo(S, n) ==
  IF n = 0 THEN {<<>>}
  ELSE LET shorter == SeqsUpTo(S, n - 1)
       IN shorter \cup {Append(s, e) : s \in shorter, e \in S}

PoolPrograms == SeqsUpTo(OpcodePool, MaxPoolLen)

Programs ==
  ArithPrograms \cup SkipPrograms \cup RegisterSweepPrograms
  \cup UnknownPrograms \cup NestPrograms \cup Scenarios \cup PoolPrograms

OtherStarts == {2, 512, MemSize - 8, MemSize - 6, MemSize}

LoadInputs ==
  {<<Bytes(p), 0>> : p \in Programs}
  \cup {<<Bytes(p), s>> : p \in Scenarios, s \in OtherStarts}

\* ------------------------------------------------------------------------
\* Specification
\* ------------------------------------------------------------------------
Init == new

load == \E input \in LoadInputs : load_program(input[1], input[2])
key == \E ev \in KeyEvents : read_key(ev)

Next ==
  \/ load
  \/ fetch
  \/ run_halt
  \/ run_ret
  \/ run_jmp
  \/ run_call
  \/ run_se
  \/ run_sne
  \/ run_ld
  \/ run_add_xy
  \/ run_sub_xy
  \/ run_and_xy
  \/ run_or_xy
  \/ run_xor_xy
  \/ run_mul_xy
  \/ run_div_xy
  \/ run_read_key
  \/ run_todo
  \/ key

Spec == Init /\ [][Next]_vars

\* ------------------------------------------------------------------------
\* Properties
\* ------------------------------------------------------------------------
\* the operands of the instruction about to execute, and states after one
AtAlu(d) == status = "exec" /\ IsAlu(opcode, d)
AfterAlu(d) == status = "fetch" /\ IsAlu(opcode, d)
X == Field_x(opcode)
Y == Field_y(opcode)
Flag == 15
Loaded(program) == memory = [base |-> 0, image |-> Bytes(program)]
\* the program of n nested subroutines is loaded at 0
NestImages == [n \in 1..StackLen |-> Bytes(NestProgram(n))]
LoadedNest(n) == memory = [base |-> 0, image |-> NestImages[n]]
\* the big-endian 16-bit word of memory at address a
read_opcode_at(a) == MemAt(memory, a) * 256 + MemAt(memory, a + 1)

\* C1 as stated: for every x, y in 0..15, ADD leaves reg[x] = (a+b) mod 256
\* and reg[0xF] = 1 if a+b > 255, else 0.
C1_AddAllRegisters ==
  [][AtAlu(4) =>
       LET a == registers[X]
           b == registers[Y]
       IN /\ registers'[X] = (a + b) % 256
          /\ registers'[Flag] = IF a + b > 255 THEN 1 ELSE 0]_vars

\* C1 amended: reg[0xF] = 1 if a+b > 255, else 0, for every x, y in 0..15;
\* reg[x] = (a+b) mod 256 for every x other than 0xF, where the flag is
\* written over the sum.
C1_Add ==
  [][AtAlu(4) =>
       LET a == registers[X]
           b == registers[Y]
       IN /\ X # Flag => registers'[X] = (a + b) % 256
          /\ registers'[Flag] = IF a + b > 255 THEN 1 ELSE 0]_vars

\* an ADD has set the carry of a wrapped sum in a register other than 0xF
C1_Witness ==
  /\ AfterAlu(4)
  /\ X # Flag
  /\ registers[Flag] = 1
  /\ registers[X] = 0
  /\ registers[Y] = 128

\* C2 as stated: for every x, y in 0..15, SUB leaves reg[x] = (a-b) mod 256
\* and reg[0xF] = 1 if a >= b, else 0.
C2_SubAllRegisters ==
  [][AtAlu(5) =>
       LET a == registers[X]
           b == registers[Y]
       IN /\ registers'[X] = (a - b + 256) % 256
          /\ registers'[Flag] = IF a >= b THEN 1 ELSE 0]_vars

\* C2 amended: reg[0xF] = 1 if a >= b, else 0, for every x, y in 0..15;
\* reg[x] = (a-b) mod 256 for every x other than 0xF, where the flag is
\* written over the difference.
C2_Sub ==
  [][AtAlu(5) =>
       LET a == registers[X]
           b == registers[Y]
       IN /\ X # Flag => registers'[X] = (a - b + 256) % 256
          /\ registers'[Flag] = IF a >= b THEN 1 ELSE 0]_vars

\* a SUB has borrowed: 5 - 10 left 251 and flag 0
C2_Witness ==
  /\ AfterAlu(5)
  /\ X # Flag
  /\ registers[Flag] = 0
  /\ registers[X] = 251
  /\ registers[Y] = 10

\* C3 as stated: for every x, y in 0..15 and divisor b # 0, DIV leaves
\* reg[x] = a div b and reg[0xF] = a mod b.
C3_DivAllRegisters ==
  [][(AtAlu(13) /\ registers[Y] # 0) =>
       LET a == registers[X]
           b == registers[Y]
       IN /\ registers'[X] = a \div b
          /\ registers'[Flag] = a % b]_vars

\* C3 amended: with a divisor b # 0, reg[x] = a div b for every x, y in
\* 0..15; reg[0xF] = a mod b for every x other than 0xF, where the quotient
\* is written over the remainder.
C3_Div ==
  [][(AtAlu(13) /\ registers[Y] # 0) =>
       LET a == registers[X]
           b == registers[Y]
       IN /\ registers'[X] = a \div b
          /\ X # Flag => registers'[Flag] = a % b
          /\ status' = "fetch"]_vars

\* a DIV has left quotient 25 and remainder 5 (255 by 10)
C3_Witness ==
  /\ AfterAlu(13)
  /\ X # Flag
  /\ registers[X] = 25
  /\ registers[Y] = 10
  /\ registers[Flag] = 5

\* C4: DIV with reg[y] = 0 ends the run in the divide-by-zero fault with all
\* 16 registers as they were; the program LD V0,5; LD V1,0; DIV V0,V1; HALT
\* never halts, and stops only in that fault with reg[0] = 5 and reg[1] = 0.
C4_DivByZero ==
  /\ [][(AtAlu(13) /\ registers[Y] = 0) =>
          (status' = "panic_div_zero" /\ registers' = registers)]_vars
  /\ [][status = "panic_div_zero" => UNCHANGED vars]_vars
  /\ [](Loaded(ScenarioDivZero) =>
          /\ status # "halted"
          /\ status \in Panics =>
               /\ status = "panic_div_zero"
               /\ registers[0] = 5
               /\ registers[1] = 0)

\* the scenario has ended in the divide-by-zero fault
C4_Witness ==
  /\ Loaded(ScenarioDivZero)
  /\ status = "panic_div_zero"
  /\ opcode = DIV_XY(0, 1)
  /\ registers[0] = 5
  /\ registers[1] = 0

\* C5: CALL/RET linkage is last-in-first-out. Every CALL with room on the
\* stack pushes the address after itself above the entries already there and
\* jumps to nnn; every RET on a non-empty stack pops the newest entry into
\* the program counter. In the program of n nested subroutines, n in 1..16,
\* the stack holds the addresses after the pending CALLs in call order, the
\* RET of subroutine k returns to the address after the CALL that entered
\* it, no fault occurs, and at the halt the stack pointer is 0 again.
C5_CallRetLifo ==
  /\ [][(status = "exec" /\ Field_c(opcode) = 2 /\ stack_pointer < StackLen) =>
          /\ read_opcode_at(position_in_memory - 2) = opcode
          /\ stack'[stack_pointer] = position_in_memory
          /\ \A i \in 0..(stack_pointer - 1) : stack'[i] = stack[i]
          /\ stack_pointer' = stack_pointer + 1
          /\ position_in_memory' = Field_nnn(opcode)]_vars
  /\ [][(status = "exec" /\ opcode = RET /\ stack_pointer > 0) =>
          /\ position_in_memory' = stack[stack_pointer - 1]
          /\ stack_pointer' = stack_pointer - 1
          /\ stack' = stack]_vars
  /\ [](\A n \in 1..StackLen : LoadedNest(n) =>
          /\ status \notin Panics
          /\ \A i \in 0..(stack_pointer - 1) :
               /\ stack[i] = 4 * i + 2
               /\ Field_c(read_opcode_at(4 * i)) = 2
          /\ status = "halted" => stack_pointer = 0 /\ position_in_memory = 4)
  /\ [][(\E n \in 1..StackLen : LoadedNest(n))
          /\ status = "exec" /\ opcode = RET =>
            /\ stack_pointer >= 1
            /\ position_in_memory - 2 \in {4 * stack_pointer, 4 * stack_pointer + 2}
            /\ position_in_memory' = 4 * (stack_pointer - 1) + 2
            /\ stack_pointer' = stack_pointer - 1]_vars

\* 16 nested CALLs were followed by 16 RETs and the caller has halted
C5_Witness ==
  /\ LoadedNest(StackLen)
  /\ status = "halted"
  /\ stack_pointer = 0
  /\ stack[StackLen - 1] = 4 * (StackLen - 1) + 2

\* C6: a CALL executed with stack_pointer = 16 is rejected by the
\* stack-overflow guard of call, with the stack, the stack pointer and the
\* program counter left as they were.
C6_SeventeenthCallStackOverflow ==
  [][(status = "exec" /\ Field_c(opcode) = 2 /\ stack_pointer = StackLen) =>
       /\ status' = "panic_stack_overflow"
       /\ stack' = stack
       /\ stack_pointer' = stack_pointer
       /\ position_in_memory' = position_in_memory]_vars

\* C7: RET with stack_pointer = 0 ends the run in the stack-underflow fault
\* with the stack pointer still 0 and the stack and the registers unchanged.
C7_RetUnderflow ==
  /\ [][(status = "exec" /\ opcode = RET /\ stack_pointer = 0) =>
          /\ status' = "panic_stack_underflow"
          /\ stack_pointer' = 0
          /\ stack' = stack
          /\ registers' = registers]_vars
  /\ [][status = "panic_stack_underflow" => UNCHANGED vars]_vars

\* a RET found the stack empty after a CALL and a RET had used it
C7_Witness ==
  /\ status = "panic_stack_underflow"
  /\ opcode = RET
  /\ stack_pointer = 0
  /\ stack[0] # 0

\* C8: in every reachable state 0 <= stack_pointer <= 16.
C8_StackPointerRange == stack_pointer >= 0 /\ stack_pointer <= StackLen

\* the stack is full and a further CALL has been refused
C8_Witness ==
  /\ stack_pointer = StackLen
  /\ Field_c(opcode) = 2
  /\ status \in Panics

\* C9: with f the address the opcode was fetched from, SE leaves the
\* program counter at f + 4 if reg[x] = kk and at f + 2 otherwise, SNE at
\* f + 4 if reg[x] # kk and at f + 2 otherwise, and both leave all 16
\* registers unchanged. (The fetch has put the counter at f + 2.)
C9_SkipInstructions ==
  /\ [][(status = "fetch" /\ status' = "exec") =>
          /\ position_in_memory' = position_in_memory + 2
          /\ opcode' = read_opcode_at(position_in_memory)]_vars
  /\ [][(status = "exec" /\ Field_c(opcode) = 3) =>
          LET f == position_in_memory - 2
          IN /\ position_in_memory' =
                  IF registers[X] = Field_kk(opcode) THEN f + 4 ELSE f + 2
             /\ registers' = registers]_vars
  /\ [][(status = "exec" /\ Field_c(opcode) = 4) =>
          LET f == position_in_memory - 2
          IN /\ position_in_memory' =
                  IF registers[X] # Field_kk(opcode) THEN f + 4 ELSE f + 2
             /\ registers' = registers]_vars

\* an SE at address 2 found reg[x] = kk = 255 and skipped to address 6
C9_Witness ==
  /\ status = "fetch"
  /\ Field_c(opcode) = 3
  /\ read_opcode_at(2) = opcode
  /\ registers[X] = Field_kk(opcode)
  /\ Field_kk(opcode) = 255
  /\ position_in_memory = 6

\* C10: the program LD V0,5; LD V1,10; SUB V0,V1; ADD V0,V1; AND V0,V1;
\* HALT loaded at 0 runs into no fault and at the halt reg[0] = 0 and
\* reg[1] = 10.
C10_ScenarioArith ==
  Loaded(ScenarioArith) =>
    /\ status \notin Panics
    /\ status = "halted" => registers[0] = 0 /\ registers[1] = 10

\* the scenario has reached its halt at address 10
C10_Witness ==
  /\ Loaded(ScenarioArith)
  /\ status = "halted"
  /\ position_in_memory = 12
  /\ registers[0] = 0
  /\ registers[1] = 10

\* C11 as stated: in the run of LD V0,5; LD V1,10; SUB V0,V1; ADD V0,V1;
\* AND V0,V1; HALT, after SUB reg[0] = 251 and reg[0xF] = 0, after ADD
\* reg[0] = 5 and reg[0xF] = 0, after AND reg[0] = 0.
C11_ScenarioStepsFlagZero ==
  (Loaded(ScenarioArith) /\ status = "fetch") =>
    /\ opcode = SUB_XY(0, 1) => registers[0] = 251 /\ registers[Flag] = 0
    /\ opcode = ADD_XY(0, 1) => registers[0] = 5 /\ registers[Flag] = 0
    /\ opcode = AND_XY(0, 1) => registers[0] = 0

\* C11 amended: after SUB reg[0] = 251 and reg[0xF] = 0 (borrow); after ADD
\* reg[0] = 5 and reg[0xF] = 1, since 251 + 10 = 261 overflows; after AND
\* reg[0] = 0.
C11_ScenarioSteps ==
  (Loaded(ScenarioArith) /\ status = "fetch") =>
    /\ opcode = SUB_XY(0, 1) => registers[0] = 251 /\ registers[Flag] = 0
    /\ opcode = ADD_XY(0, 1) => registers[0] = 5 /\ registers[Flag] = 1
    /\ opcode = AND_XY(0, 1) => registers[0] = 0

\* the ADD of the scenario has run: 251 + 10 wrapped to 5 with the flag set
C11_Witness ==
  /\ Loaded(ScenarioArith)
  /\ status = "fetch"
  /\ opcode = ADD_XY(0, 1)
  /\ position_in_memory = 8
  /\ registers[0] = 5
  /\ registers[Flag] = 1

\* C12 as stated: for every x, y in 0..15, MUL leaves reg[x] = (a*b) mod 256
\* and reg[0xF] = 1 if a*b > 255, else 0, and is never a fault.
C12_MulAllRegisters ==
  [][AtAlu(12) =>
       LET a == registers[X]
           b == registers[Y]
       IN /\ registers'[X] = (a * b) % 256
          /\ registers'[Flag] = IF a * b > 255 THEN 1 ELSE 0
          /\ status' = "fetch"]_vars

\* C12 amended: reg[0xF] = 1 if a*b > 255, else 0, for every x, y in 0..15,
\* and the overflow is never a fault; reg[x] = (a*b) mod 256 for every x
\* other than 0xF, where the flag is written over the product.
C12_Mul ==
  [][AtAlu(12) =>
       LET a == registers[X]
           b == registers[Y]
       IN /\ X # Flag => registers'[X] = (a * b) % 256
          /\ registers'[Flag] = IF a * b > 255 THEN 1 ELSE 0
          /\ status' = "fetch"]_vars

\* a MUL has overflowed: 128 * 10 = 1280 left 0 and the flag set
C12_Witness ==
  /\ AfterAlu(12)
  /\ X # Flag
  /\ registers[X] = 0
  /\ registers[Y] = 10
  /\ registers[Flag] = 1

Even(n) == n % 2 = 0
StackEven == \A i \in 0..(StackLen - 1) : Even(stack[i])
\* the instruction about to execute is a JMP or a CALL to an odd address
OddTarget ==
  status = "exec" /\ Field_c(opcode) \in {1, 2} /\ ~Even(Field_nnn(opcode))
\* no opcode at an even address of the loaded image is a JMP or a CALL to an
\* odd address
NoOddTargets ==
  /\ Even(memory.base)
  /\ \A k \in 1..(Len(memory.image) \div 2) :
       LET op == memory.image[2 * k - 1] * 256 + memory.image[2 * k]
       IN Field_c(op) \in {1, 2} => Even(Field_nnn(op))

\* C13 as stated: the program counter is even in every state reachable by
\* run() from a program loaded at an even address, whatever the program.
C13_CounterAlwaysEven == Even(memory.base) => Even(position_in_memory)

\* C13 amended: the program counter stays even as long as no JMP or CALL
\* with an odd nnn is executed (the code neither aligns nor rejects an odd
\* target); in particular it is even in every state of a program loaded at
\* an even address whose JMP and CALL opcodes all have an even nnn.
C13_CounterEven ==
  /\ [][(Even(position_in_memory) /\ StackEven /\ ~OddTarget) =>
          (Even(position_in_memory') /\ StackEven')]_vars
  /\ [](NoOddTargets => Even(position_in_memory))

\* a CALL to the even address 4 has pushed the even return address 2
C13_Witness ==
  /\ NoOddTargets
  /\ status = "fetch"
  /\ Field_c(opcode) = 2
  /\ position_in_memory = 4
  /\ stack_pointer = 1
  /\ stack[0] = 2

\* C14: run() starts at the load address: when load has returned, the
\* program counter, from which the first opcode is fetched, is start_address.
C14_StartsAtLoadAddress ==
  [][(status = "new" /\ status' = "fetch") =>
       position_in_memory' = memory'.base]_vars

\* C15: once the program is loaded no step of run() changes memory.
C15_MemoryReadOnly ==
  [][status # "new" => memory' = memory]_vars

\* the program of main has run to its halt, through a key read, with the
\* image as it was loaded
C15_Witness ==
  /\ Loaded(ScenarioMain)
  /\ status = "halted"
  /\ position_in_memory = 12

\* how many arms of the match can take the opcode that was fetched
EnabledArms ==
  (IF ENABLED run_halt THEN 1 ELSE 0) + (IF ENABLED run_ret THEN 1 ELSE 0)
  + (IF ENABLED run_jmp THEN 1 ELSE 0) + (IF ENABLED run_call THEN 1 ELSE 0)
  + (IF ENABLED run_se THEN 1 ELSE 0) + (IF ENABLED run_sne THEN 1 ELSE 0)
  + (IF ENABLED run_ld THEN 1 ELSE 0) + (IF ENABLED run_add_xy THEN 1 ELSE 0)
  + (IF ENABLED run_sub_xy THEN 1 ELSE 0) + (IF ENABLED run_and_xy THEN 1 ELSE 0)
  + (IF ENABLED run_or_xy THEN 1 ELSE 0) + (IF ENABLED run_xor_xy THEN 1 ELSE 0)
  + (IF ENABLED run_mul_xy THEN 1 ELSE 0) + (IF ENABLED run_div_xy THEN 1 ELSE 0)
  + (IF ENABLED run_read_key THEN 1 ELSE 0) + (IF ENABLED run_todo THEN 1 ELSE 0)

\* C16: every fetched opcode is dispatched to exactly one outcome; an
\* opcode matching no row of the opcode table ends the run in the
\* unknown-opcode fault with the registers, the stack, the stack pointer and
\* memory unchanged; run() returns only on opcode 0x0000, stops only halted
\* or in a fault, and nothing follows either.
C16_Dispatch ==
  /\ [](status = "exec" => EnabledArms = 1)
  /\ [][(status = "exec" /\
           LET c == opcode \div 4096
               d == opcode % 16
           IN ~(\/ opcode \in {0, 238, 61450}
                \/ c \in {1, 2, 3, 4, 6}
                \/ c = 8 /\ d \in {1, 2, 3, 4, 5, 12, 13})) =>
          /\ status' = "panic_todo"
          /\ UNCHANGED <<registers, stack, stack_pointer, memory>>]_vars
  /\ [][(status' = "halted" /\ status # "halted") =>
          (status = "exec" /\ opcode = 0)]_vars
  /\ [](/\ status = "fetch" => ENABLED fetch
        /\ status = "key" => ENABLED key)
  /\ [][(status \in Panics \cup {"halted"}) => UNCHANGED vars]_vars

\* the opcode 0xF10A, which no arm takes, has ended the run
C16_Witness ==
  /\ status = "panic_todo"
  /\ opcode = 15 * 4096 + 266
  /\ position_in_memory = 2
  /\ registers = [i \in 0..(NumRegs - 1) |-> 0]

\* all 4096 bytes of a memory
AllBytes(m) == [a \in 0..4095 |-> MemAt(m, a)]

\* what C17 says a load of input = <<program, start_address>> does
LoadAsSpecified(input) ==
  LET program == input[1]
      start_address == input[2]
      end == start_address + Len(program)
  IN IF end <= 4096
     THEN /\ status' = "fetch"
          /\ AllBytes(memory') =
               [a \in 0..4095 |->
                  IF a >= start_address /\ a < end
                  THEN program[a - start_address + 1]
                  ELSE MemAt(memory, a)]
     ELSE /\ status' = "panic_load_bounds"
          /\ AllBytes(memory') = AllBytes(memory)
          /\ memory' = memory

\* the same without the bytes outside the range of the program
LoadOutcome(input) ==
  LET program == input[1]
      start_address == input[2]
  IN IF start_address + Len(program) <= 4096
     THEN /\ status' = "fetch"
          /\ [k \in 1..Len(program) |-> MemAt(memory', start_address + k - 1)]
               = program
     ELSE /\ status' = "panic_load_bounds"
          /\ memory' = memory

\* the loads of the three scenario programs at every explored address
ScenarioLoads ==
  {<<Bytes(p), s>> : p \in Scenarios, s \in OtherStarts \cup {0}}

\* C17: load(program, start_address) succeeds iff start_address +
\* len(program) <= 4096; on success memory[start_address .. start_address +
\* len) holds the program bytes and every other byte is as before; otherwise
\* it is a bounds fault and no byte of memory is written. On a fresh CPU
\* every explored load has that outcome and no other; all 4096 bytes are
\* compared for the loads of the scenario programs.
C17_LoadBounds ==
  status = "new" =>
    /\ \A input \in LoadInputs :
         /\ ENABLED (load_program(input[1], input[2]) /\ LoadOutcome(input))
         /\ ~ENABLED (load_program(input[1], input[2]) /\ ~LoadOutcome(input))
    /\ \A input \in ScenarioLoads :
         /\ ENABLED (load_program(input[1], input[2]) /\ LoadAsSpecified(input))
         /\ ~ENABLED (load_program(input[1], input[2]) /\ ~LoadAsSpecified(input))

\* a load past the end of memory has been refused and memory is still zero
C17_Witness ==
  /\ status = "panic_load_bounds"
  /\ memory = [base |-> 0, image |-> <<>>]
  /\ position_in_memory = 0

\* the events the key source delivers (a failure of the source is no event)
DeliveredEvents == {ev \in KeyEvents : ev[1] # "Err"}

\* what a delivered event does to a processor waiting in LDK
KeyOutcome(ev) ==
  CASE ev[1] = "Char" ->
         /\ registers' = [registers EXCEPT ![0] = ev[2] % 256]
         /\ status' = "fetch"
         /\ UNCHANGED <<position_in_memory, memory, stack, stack_pointer, opcode>>
    [] ev[1] = "Esc" ->
         /\ status' = "fetch"
         /\ UNCHANGED <<registers, position_in_memory, memory, stack,
                        stack_pointer, opcode>>
    [] OTHER -> UNCHANGED vars

\* C18: LDK (0xF00A) blocks the instruction stream until the key source
\* delivers a character key or the Escape key: any other event changes no
\* processor state and keeps waiting; a character key sets reg[0] to the
\* character code mod 256 and changes nothing else; Escape leaves reg[0] and
\* all other state unchanged; in both cases execution resumes at the
\* instruction after LDK, and no instruction is executed while waiting.
C18_ReadKey ==
  /\ [](status = "key" =>
         /\ opcode = 61450
         /\ position_in_memory >= 2
         /\ read_opcode_at(position_in_memory - 2) = 61450
         /\ ~ENABLED fetch
         /\ EnabledArms = 0
         /\ \A ev \in DeliveredEvents :
              /\ ENABLED (read_key(ev) /\ KeyOutcome(ev))
              /\ ~ENABLED (read_key(ev) /\ ~KeyOutcome(ev)))
  /\ [][(status = "exec" /\ opcode = 61450) =>
          /\ status' = "key"
          /\ UNCHANGED <<registers, position_in_memory, memory, stack,
                         stack_pointer, opcode>>]_vars
  /\ [][status' = "key" => status \in {"exec", "key"}]_vars

\* the program of main has taken a key with a character code above 255 and
\* is about to fetch the halt after its LDK
C18_Witness ==
  /\ Loaded(ScenarioMain)
  /\ status = "fetch"
  /\ opcode = LDK
  /\ position_in_memory = 10
  /\ registers[0] = 8364 % 256

\* C19: JMP (0x1nnn), SE (0x3xkk) and SNE (0x4xkk) change only the program
\* counter: the 16 registers, the stack array, the stack pointer and memory
\* are the same after the instruction as before it, and JMP sets the program
\* counter to exactly nnn.
C19_JumpSkipFrame ==
  [][(status = "exec" /\ (opcode \div 4096) \in {1, 3, 4}) =>
       /\ registers' = registers
       /\ stack' = stack
       /\ stack_pointer' = stack_pointer
       /\ memory' = memory
       /\ (opcode \div 4096 = 1 => position_in_memory' = opcode % 4096)]_vars

\* LD V0,1 then JMP 0xFFF: the jump has been executed, the counter is the
\* odd target and register 0 still holds the loaded value
C19_Witness ==
  /\ status = "fetch"
  /\ opcode = JMP(4095)
  /\ position_in_memory = 4095
  /\ registers[0] = 1
  /\ stack_pointer = 0

\* C20: every opcode fetch reads inside memory: at every fetch the program
\* counter p satisfies p + 1 <= 4095, and run() never ends in an
\* out-of-range memory access.
C20_FetchInsideMemory ==
  /\ status = "fetch" => position_in_memory + 1 <= 4095
  /\ status # "panic_fetch_bounds"

====
